---------------------------- MODULE Spec2Model ----------------------------
(***************************************************************************)
(* Hearts rules engine (src/app/game.py) with the chooser of src/app/ai.py *)
(* as a state machine.  A card is the pair <<rank, suit>> of the two       *)
(* characters of the source's card string ("2C" is <<"2", "C">>); a hand   *)
(* is a sequence, as the source's list; a dict is a function (hands,       *)
(* scores, taken_points_round) or, where insertion order decides what the  *)
(* code does, a sequence of <<key, value>> pairs (pending_pass).           *)
(***************************************************************************)
EXTENDS Integers, Sequences, FiniteSets, TLC

(***************************************************************************)
(* Bounds of the model.                                                    *)
(***************************************************************************)
\* number of shuffles random.shuffle may produce in the model
NumShuffles == 2
\* accepted calls other than the ones the chooser of ai.py would make, and
\* passes that list a card twice, are offered until this many cards have been
\* played in the game; from then on the seats call with the chooser's cards
MaxFreePlays == 2
\* number of submit_pass calls that raise which the model follows
MaxRaises == 2

\* legal_moves is applied to hands of up to MaxLegalHand cards and tricks of
\* up to MaxLegalTrick cards
MaxLegalHand == 4

MaxLegalTrick == 2

\* rounds a room starts with start_round in one game
MaxRoomRounds == 1

\* sends that suspend in the life of a room
MaxSlowSends == 1

\* steps of other tasks under the lock while a send is suspended
MaxOvertakes == 1

\* people connected to a room at a time
MaxHumans == 2

\* calls of submit_pass that end in an exception in the life of a room
MaxRoomRaises == 1

\* Room.max_players
max_players == 4

(***************************************************************************)
(* Program constants.                                                      *)
(***************************************************************************)
PASS_LEFT == 0
PASS_RIGHT == 1
PASS_ACROSS == 2
PASS_HOLD == 3
\* len(cards) != 3 in submit_pass, [:3] in choose_pass
PassSize == 3
\* points == 26 in finish_round
MoonPoints == 26
\* max(scores) >= 100 in finish_round
GameOverScore == 100
\* card_points("QS")
QueenPoints == 13
\* round_index % 4 in start_round
NumPassDirs == 4

None == "None"

SUITS == <<"C", "D", "S", "H">>
RANKS == <<"2", "3", "4", "5", "6", "7", "8", "9", "T", "J", "Q", "K", "A">>

\* list.index(x), 0-based as in the source
IndexOf(seq, x) == (CHOOSE i \in 1..Len(seq) : seq[i] = x) - 1

Contains(seq, x) == \E i \in 1..Len(seq) : seq[i] = x

TwoOfClubs == <<"2", "C">>

SeqSetOf(seq) == {seq[i] : i \in 1..Len(seq)}

\* RANK_VALUE = {rank: i for i, rank in enumerate(RANKS)}
RANK_VALUE == [rank \in {RANKS[i] : i \in 1..Len(RANKS)} |-> IndexOf(RANKS, rank)]

\* SUITS.index(suit), for each suit
SUIT_INDEX == [suit \in {SUITS[i] : i \in 1..Len(SUITS)} |-> IndexOf(SUITS, suit)]

\* the players of the game, in player_order()
Seats == <<"p0", "p1", "p2", "p3">>
SeatSet == {Seats[i] : i \in 1..Len(Seats)}

make_deck ==
  [i \in 1..(Len(SUITS) * Len(RANKS)) |->
     <<RANKS[((i - 1) % Len(RANKS)) + 1], SUITS[((i - 1) \div Len(RANKS)) + 1]>>]

Deck == {make_deck[i] : i \in 1..Len(make_deck)}

card_suit(card) == card[2]

card_rank(card) == card[1]

card_points(card) ==
  IF card_suit(card) = "H" THEN 1
  ELSE IF card = <<"Q", "S">> THEN QueenPoints
  ELSE 0

is_point_card(card) == card_points(card) > 0

\* the sort key (SUITS.index(suit), RANK_VALUE[rank]) as one number
HandKey == [c \in Deck |-> SUIT_INDEX[card_suit(c)] * Len(RANKS) + RANK_VALUE[card_rank(c)]]

\* the sort key (card_points, RANK_VALUE[rank]) of the chooser as one number
DangerKey == [c \in Deck |-> card_points(c) * Len(RANKS) + RANK_VALUE[card_rank(c)]]

\* x put into the ascending sequence after the elements whose key is not
\* greater than its own
InsertBy(key, sorted, x) ==
  LET p == Cardinality({i \in 1..Len(sorted) : key[sorted[i]] <= key[x]})
  IN  SubSeq(sorted, 1, p) \o <<x>> \o SubSeq(sorted, p + 1, Len(sorted))

RECURSIVE SortLoop(_, _, _)
SortLoop(key, acc, rest) ==
  IF rest = <<>> THEN acc
  ELSE SortLoop(key, InsertBy(key, acc, rest[1]), Tail(rest))

\* list.sort(key=...) / sorted(..., key=...): ascending by key, and stable
SortBy(key, seq) == SortLoop(key, <<>>, seq)

sort_hand(hand) == SortBy(HandKey, hand)

\* list.remove(x): the first occurrence goes; the caller has checked membership
RemoveFirst(seq, x) ==
  LET i == IndexOf(seq, x) + 1
  IN  SubSeq(seq, 1, i - 1) \o SubSeq(seq, i + 1, Len(seq))


(***************************************************************************)
(* game.py: the pure functions.                                            *)
(***************************************************************************)
\* the deck after random.shuffle: shuffle 1 leaves make_deck's order, shuffle
\* k >= 2 puts the 13 cards from position k - 2 on (cyclically) at seat 0's
\* places of the deal, the next 13 at seat 1's, and so on
Shuffle(k) ==
  IF k = 1 THEN make_deck
  ELSE [i \in 1..Len(make_deck) |->
          make_deck[((Len(RANKS) * ((i - 1) % Len(Seats)) + ((i - 1) \div Len(Seats))
                      + (k - 2)) % Len(make_deck)) + 1]]

\* hands[players[i % len(players)].id].append(card), then each hand sorted
deal_hands(deck) ==
  [pid \in SeatSet |->
     sort_hand([n \in 1..(Len(deck) \div Len(Seats)) |->
                  deck[(n - 1) * Len(Seats) + IndexOf(Seats, pid) + 1]])]

hands_get(h, pid) == IF pid \in DOMAIN h THEN h[pid] ELSE <<>>

find_two_clubs_player(h) ==
  IF \E i \in 1..Len(Seats) : Contains(h[Seats[i]], <<"2", "C">>)
  THEN Seats[CHOOSE i \in 1..Len(Seats) :
               /\ Contains(h[Seats[i]], <<"2", "C">>)
               /\ \A j \in 1..(i - 1) : ~Contains(h[Seats[j]], <<"2", "C">>)]
  ELSE None

\* the winner as the seat of the highest rank in the trick, whatever the suit
trick_winner_any_suit(t) ==
  t[CHOOSE i \in 1..Len(t) :
      \A j \in 1..Len(t) :
        \/ RANK_VALUE[card_rank(t[j][2])] < RANK_VALUE[card_rank(t[i][2])]
        \/ (RANK_VALUE[card_rank(t[j][2])] = RANK_VALUE[card_rank(t[i][2])] /\ i <= j)][1]

RECURSIVE WinnerLoop(_, _, _)
\* the for loop of trick_winner over trick[1:], winning being the best so far
WinnerLoop(lead_suit, winning, rest) ==
  IF rest = <<>> THEN winning
  ELSE IF card_suit(rest[1][2]) # lead_suit THEN WinnerLoop(lead_suit, winning, Tail(rest))
  ELSE IF RANK_VALUE[card_rank(rest[1][2])] > RANK_VALUE[card_rank(winning[2])]
       THEN WinnerLoop(lead_suit, rest[1], Tail(rest))
       ELSE WinnerLoop(lead_suit, winning, Tail(rest))

trick_winner(t) == WinnerLoop(card_suit(t[1][2]), t[1], Tail(t))[1]

pass_map(direction) ==
  [pid \in SeatSet |->
     LET idx == IndexOf(Seats, pid)
         size == Len(Seats)
     IN  IF direction = PASS_LEFT THEN Seats[((idx + 1) % size) + 1]
         ELSE IF direction = PASS_RIGHT THEN Seats[((idx - 1) % size) + 1]
         ELSE IF direction = PASS_ACROSS THEN Seats[((idx + 2) % size) + 1]
         ELSE pid]

NotHeart(c) == card_suit(c) # "H"
NotPoint(c) == ~is_point_card(c)

\* legal_moves with the opening lead treated as any other lead
legal_moves_any_lead(hand, t, broken, is_first_trick) ==
  IF hand = <<>> THEN <<>>
  ELSE IF t = <<>> THEN
    IF broken THEN hand
    ELSE LET non_hearts == SelectSeq(hand, NotHeart)
         IN  IF non_hearts # <<>> THEN non_hearts ELSE hand
  ELSE
    LET lead_suit == card_suit(t[1][2])
        suited == SelectSeq(hand, LAMBDA c : card_suit(c) = lead_suit)
    IN  IF suited # <<>> THEN suited
        ELSE IF is_first_trick
        THEN LET non_points == SelectSeq(hand, NotPoint)
             IN  IF non_points # <<>> THEN non_points ELSE hand
        ELSE hand

\* legal_moves without the first-trick exclusion of point cards
legal_moves_free_discard(hand, t, broken, is_first_trick) ==
  IF hand = <<>> THEN <<>>
  ELSE IF t = <<>> THEN
    IF is_first_trick
    THEN (IF Contains(hand, <<"2", "C">>) THEN << <<"2", "C">> >> ELSE <<hand[1]>>)
    ELSE IF broken THEN hand
    ELSE LET non_hearts == SelectSeq(hand, NotHeart)
         IN  IF non_hearts # <<>> THEN non_hearts ELSE hand
  ELSE
    LET lead_suit == card_suit(t[1][2])
        suited == SelectSeq(hand, LAMBDA c : card_suit(c) = lead_suit)
    IN  IF suited # <<>> THEN suited ELSE hand

legal_moves(hand, t, broken, is_first_trick) ==
  IF hand = <<>> THEN <<>>
  ELSE IF t = <<>> THEN
    IF is_first_trick
    THEN (IF Contains(hand, <<"2", "C">>) THEN << <<"2", "C">> >> ELSE <<hand[1]>>)
    ELSE IF broken THEN hand
    ELSE LET non_hearts == SelectSeq(hand, NotHeart)
         IN  IF non_hearts # <<>> THEN non_hearts ELSE hand
  ELSE
    LET lead_suit == card_suit(t[1][2])
        suited == SelectSeq(hand, LAMBDA c : card_suit(c) = lead_suit)
    IN  IF suited # <<>> THEN suited
        ELSE IF is_first_trick
        THEN LET non_points == SelectSeq(hand, NotPoint)
             IN  IF non_points # <<>> THEN non_points ELSE hand
        ELSE hand

(***************************************************************************)
(* ai.py: the chooser.                                                     *)
(***************************************************************************)
NegDangerKey == [c \in Deck |-> 0 - DangerKey[c]]

\* sorted(hand, key=sort_key, reverse=True)[:3]; reverse keeps equal keys in
\* their original order
choose_pass(hand) ==
  LET s == SortBy(NegDangerKey, hand)
  IN  SubSeq(s, 1, IF Len(s) < PassSize THEN Len(s) ELSE PassSize)

\* sorted(legal_moves, key=sort_key)[0]
choose_play(legal) == SortBy(DangerKey, legal)[1]

(***************************************************************************)
(* GameState (game.py 26-41), the result of the last call, and two history *)
(* variables: scored, the cards of the tricks completed in this round, and *)
(* raises, the number of calls that ended in an exception.                 *)
(***************************************************************************)
VARIABLES scores, hands, hearts_broken, trick, last_trick, current_turn,
          round_index, trick_index, phase, pass_dir, pending_pass,
          taken_points_round, winner_id, scored, ret, raises

\* Room (main.py 22-32): the roster of players in dict order, each "human"
\* (connected), "bot" (added by the host) or "left" (a human that disconnected
\* from a running game and became a bot); host_id; the holder of room.lock;
\* next_action_at as "past" or "future" of the clock; bot_task, the state of
\* the task room.bot_task refers to; prev_task, the state of the task it
\* referred to before that one; stale, the connected viewers whose last
\* snapshot is older than the state; sending, for each task that broadcasts
\* the send it is suspended in, if any: the viewer it goes to, whether what
\* it carries is still the state, whether the task has read the list of
\* connections of its broadcast (line 209; not so in the send of line 103),
\* and the viewers of that list yet to serve;
\* slow_sends, the number of sends that suspended with their task left to
\* wait for them; overtakes, the number of critical sections run since a
\* send suspended that has not returned.
\* A "dead" player is a connected human whose room_socket ended in an
\* exception.
VARIABLES roster, host_id, lock, next_action_at, bot_task, prev_task, stale, sending,
          slow_sends, overtakes

\* the arguments and the result of one call of legal_moves
VARIABLES lm_args, lm_result

gameVars == <<scores, hands, hearts_broken, trick, last_trick, current_turn,
              round_index, trick_index, phase, pass_dir, pending_pass,
              taken_points_round, winner_id>>

roomVars == <<roster, host_id, lock, next_action_at, bot_task, prev_task, stale, sending,
              slow_sends, overtakes>>

\* the tasks that broadcast: the room_socket of each player, by the player's
\* name; the room_socket of a player popped from the lobby; the tick
Tasks == SeatSet \cup {"gone", "tick"}

lmVars == <<lm_args, lm_result>>

vars == <<gameVars, scored, ret, raises, roomVars, lmVars>>

\* a room of four connected players, no tick armed
RoomAtRest ==
  /\ roster = <<"human", "human", "human", "human">>
  /\ host_id = "p0"
  /\ lock = "free"
  /\ next_action_at = "past"
  /\ bot_task = "none"
  /\ prev_task = "none"
  /\ stale = {}
  /\ sending = [t \in Tasks |-> <<>>]
  /\ slow_sends = 0
  /\ overtakes = 0

\* no call of legal_moves under observation
NoLegalCall == lm_args = <<>> /\ lm_result = <<>>

\* HeartsGame.__init__: GameState's defaults and a zero score for each player.
\* The empty dicts hands and taken_points_round are read through .get(pid, [])
\* or not at all before start_round fills them: an empty hand and 0 stand for
\* the missing key.
NewGame ==
  /\ scores = [pid \in SeatSet |-> 0]
  /\ hands = [pid \in SeatSet |-> <<>>]
  /\ hearts_broken = FALSE
  /\ trick = <<>>
  /\ last_trick = <<>>
  /\ current_turn = None
  /\ round_index = 0
  /\ trick_index = 0
  /\ phase = "lobby"
  /\ pass_dir = PASS_LEFT
  /\ pending_pass = <<>>
  /\ taken_points_round = [pid \in SeatSet |-> 0]
  /\ winner_id = None
  /\ scored = <<>>
  /\ ret = "none"
  /\ raises = 0

\* a new game in a room of four connected players
Init ==
  /\ NewGame
  /\ RoomAtRest
  /\ NoLegalCall

(***************************************************************************)
(* start_round                                                             *)
(***************************************************************************)
\* lines 154-168 on a game whose round_index is r
Dealt(k, r) ==
  LET dealt == deal_hands(Shuffle(k))
      dir == r % NumPassDirs
  IN  /\ hands' = dealt
      /\ trick' = <<>>
      /\ last_trick' = <<>>
      /\ hearts_broken' = FALSE
      /\ trick_index' = 0
      /\ pending_pass' = <<>>
      /\ taken_points_round' = [pid \in SeatSet |-> 0]
      /\ pass_dir' = dir
      /\ IF dir = PASS_HOLD
         THEN phase' = "playing" /\ current_turn' = find_two_clubs_player(dealt)
         ELSE phase' = "passing" /\ current_turn' = None
      /\ scored' = <<>>

start_round(k) ==
  /\ Dealt(k, round_index)
  /\ UNCHANGED <<scores, round_index, winner_id, raises>>

\* the first round of a game: HeartsGame(players) followed by start_round(),
\* as main.py 117-118 calls them, whatever the game before is in: room.game
\* becomes a new game, of zero scores and round_index 0, and the round is
\* dealt on it
StartGame(k) ==
  /\ scores' = [pid \in SeatSet |-> 0]
  /\ round_index' = 0
  /\ winner_id' = None
  /\ Dealt(k, 0)
  /\ ret' = "none"
  /\ UNCHANGED raises

StartNextRound(k) ==
  IF phase # "round_end"
  THEN ret' = "False" /\ UNCHANGED <<gameVars, scored, raises>>
  ELSE start_round(k) /\ ret' = "True"

(***************************************************************************)
(* submit_pass                                                             *)
(***************************************************************************)
\* lines 171-177: the checks that return False
PassAccepted(pid, cards) ==
  /\ phase = "passing"
  /\ Len(cards) = PassSize
  /\ \A i \in 1..Len(cards) : Contains(hands_get(hands, pid), cards[i])

\* pending_pass[player_id] = cards: a new key goes last, a known key keeps
\* its place
Upsert(pending, pid, cards) ==
  IF \E i \in 1..Len(pending) : pending[i][1] = pid
  THEN [i \in 1..Len(pending) |-> IF pending[i][1] = pid THEN <<pid, cards>> ELSE pending[i]]
  ELSE Append(pending, <<pid, cards>>)

RECURSIVE RemovalOps(_)
\* the (pid, card) pairs of the two nested loops of lines 184-186, in order
RemovalOps(pending) ==
  IF pending = <<>> THEN <<>>
  ELSE [i \in 1..Len(pending[1][2]) |-> <<pending[1][1], pending[1][2][i]>>]
         \o RemovalOps(Tail(pending))

RECURSIVE RemoveLoop(_, _)
\* hands[pid].remove(card) for each pair; list.remove raises ValueError when
\* the card is not (or no longer) in the hand, and the hands stay as the
\* removals before it left them
RemoveLoop(h, ops) ==
  IF ops = <<>> THEN [hands |-> h, raised |-> FALSE]
  ELSE IF Contains(h[ops[1][1]], ops[1][2])
       THEN RemoveLoop([h EXCEPT ![ops[1][1]] = RemoveFirst(@, ops[1][2])], Tail(ops))
       ELSE [hands |-> h, raised |-> TRUE]

RECURSIVE ExtendLoop(_, _, _)
\* hands[mapping[pid]].extend(pass_cards) for each pending entry, lines 188-190
ExtendLoop(h, mapping, pending) ==
  IF pending = <<>> THEN h
  ELSE ExtendLoop([h EXCEPT ![mapping[pending[1][1]]] = @ \o pending[1][2]],
                  mapping, Tail(pending))

SubmitPass(pid, cards) ==
  IF ~PassAccepted(pid, cards)
  THEN ret' = "False" /\ UNCHANGED <<gameVars, scored, raises>>
  ELSE
    LET pending == Upsert(pending_pass, pid, cards)
    IN  IF Len(pending) < Len(Seats)
        THEN /\ pending_pass' = pending
             /\ ret' = "True"
             /\ UNCHANGED <<scores, hands, hearts_broken, trick, last_trick,
                            current_turn, round_index, trick_index, phase,
                            pass_dir, taken_points_round, winner_id, scored, raises>>
        ELSE
          LET rm == RemoveLoop(hands, RemovalOps(pending))
          IN  IF rm.raised
              THEN /\ raises < MaxRaises
                   /\ hands' = rm.hands
                   /\ pending_pass' = pending
                   /\ ret' = "raised"
                   /\ raises' = raises + 1
                   /\ UNCHANGED <<scores, hearts_broken, trick, last_trick,
                                  current_turn, round_index, trick_index, phase,
                                  pass_dir, taken_points_round, winner_id, scored>>
              ELSE
                LET given == ExtendLoop(rm.hands, pass_map(pass_dir), pending)
                    sorted == [p \in SeatSet |-> sort_hand(given[p])]
                IN  /\ hands' = sorted
                    /\ pending_pass' = <<>>
                    /\ phase' = "playing"
                    /\ current_turn' = find_two_clubs_player(sorted)
                    /\ ret' = "True"
                    /\ UNCHANGED <<scores, hearts_broken, trick, last_trick,
                                   round_index, trick_index, pass_dir,
                                   taken_points_round, winner_id, scored, raises>>

(***************************************************************************)
(* play_card, next_player, finish_round                                    *)
(***************************************************************************)
\* play_card without the check of current_turn
PlayAccepted_AnySeat(pid, card) ==
  /\ phase = "playing"
  /\ Contains(hands_get(hands, pid), card)
  /\ Contains(legal_moves(hands_get(hands, pid), trick, hearts_broken, trick_index = 0), card)

\* lines 201-212: the checks that return False
PlayAccepted(pid, card) ==
  /\ phase = "playing"
  /\ current_turn = pid
  /\ Contains(hands_get(hands, pid), card)
  /\ Contains(legal_moves(hands_get(hands, pid), trick, hearts_broken, trick_index = 0), card)

next_player(pid) == Seats[((IndexOf(Seats, pid) + 1) % Len(Seats)) + 1]

RECURSIVE SumPoints(_)
SumPoints(t) == IF t = <<>> THEN 0 ELSE card_points(t[1][2]) + SumPoints(Tail(t))

\* lines 246-250: the first seat, in dict order, with 26 points
moon_shooter(taken) ==
  IF \E i \in 1..Len(Seats) : taken[Seats[i]] = MoonPoints
  THEN Seats[CHOOSE i \in 1..Len(Seats) :
               /\ taken[Seats[i]] = MoonPoints
               /\ \A j \in 1..(i - 1) : taken[Seats[j]] # MoonPoints]
  ELSE None

\* finish_round without the shoot-the-moon rule
round_scores_no_moon(sc, taken) == [pid \in SeatSet |-> sc[pid] + taken[pid]]

\* lines 252-259: the scores after the round
round_scores(sc, taken) ==
  LET shooter == moon_shooter(taken)
  IN  IF shooter # None
      THEN [pid \in SeatSet |-> IF pid = shooter THEN sc[pid] ELSE sc[pid] + MoonPoints]
      ELSE [pid \in SeatSet |-> sc[pid] + taken[pid]]

MaxScore(sc) == CHOOSE m \in {sc[p] : p \in SeatSet} : \A p \in SeatSet : sc[p] <= m

\* line 262
game_is_over(sc) == MaxScore(sc) >= GameOverScore

\* the first seat, in dict order, with the greatest score
max_score_seat(sc) ==
  Seats[CHOOSE i \in 1..Len(Seats) :
          /\ \A p \in SeatSet : sc[Seats[i]] >= sc[p]
          /\ \A j \in 1..(i - 1) : sc[Seats[j]] < sc[Seats[i]]]

\* min(scores, key=scores.get): the first seat, in dict order, with the least score
min_score_seat(sc) ==
  Seats[CHOOSE i \in 1..Len(Seats) :
          /\ \A p \in SeatSet : sc[Seats[i]] <= sc[p]
          /\ \A j \in 1..(i - 1) : sc[Seats[j]] > sc[Seats[i]]]

finish_round(taken) ==
  LET sc == round_scores(scores, taken)
  IN  /\ scores' = sc
      /\ round_index' = round_index + 1
      /\ IF game_is_over(sc)
         THEN phase' = "game_over" /\ winner_id' = min_score_seat(sc)
         ELSE phase' = "round_end" /\ winner_id' = winner_id

\* hearts_broken set by any point card, the queen of spades included
hearts_after_point_card(card, broken) == IF is_point_card(card) THEN TRUE ELSE broken

\* lines 219-220: hearts_broken after the card is played
hearts_after(card, broken) == IF card_suit(card) = "H" THEN TRUE ELSE broken

TrickCards(t) == [i \in 1..Len(t) |-> t[i][2]]

PlayCard(pid, card) ==
  IF ~PlayAccepted(pid, card)
  THEN ret' = "False" /\ UNCHANGED <<gameVars, scored, raises>>
  ELSE
    LET hands1 == [hands EXCEPT ![pid] = RemoveFirst(@, card)]
        trick1 == Append(trick, <<pid, card>>)
    IN  /\ hands' = hands1
        /\ hearts_broken' = hearts_after(card, hearts_broken)
        /\ ret' = "True"
        /\ UNCHANGED <<pass_dir, pending_pass, raises>>
        /\ IF Len(trick1) < Len(Seats)
           THEN /\ trick' = trick1
                /\ last_trick' = (IF trick = <<>> THEN <<>> ELSE last_trick)
                /\ current_turn' = next_player(pid)
                /\ UNCHANGED <<scores, round_index, trick_index, phase,
                               taken_points_round, winner_id, scored>>
           ELSE
             LET winner == trick_winner(trick1)
                 taken == [taken_points_round EXCEPT ![winner] = @ + SumPoints(trick1)]
             IN  /\ taken_points_round' = taken
                 /\ last_trick' = trick1
                 /\ trick' = <<>>
                 /\ current_turn' = winner
                 /\ scored' = scored \o TrickCards(trick1)
                 /\ IF \A p \in SeatSet : Len(hands1[p]) = 0
                    THEN finish_round(taken) /\ trick_index' = trick_index
                    ELSE /\ trick_index' = trick_index + 1
                         /\ UNCHANGED <<scores, round_index, phase, winner_id>>

(***************************************************************************)
(* The callers and the arguments they call with.                           *)
(***************************************************************************)
\* the four players and an id that is no player
Callers == SeatSet \cup {"px"}

\* cards played in the game so far, while rounds run their 52 plays
CardsPlayed == Len(make_deck) * round_index + Len(Seats) * trick_index + Len(trick)

FreeCalls == CardsPlayed < MaxFreePlays

\* a hand other than the caller's
OtherHand(pid) ==
  IF pid \in SeatSet THEN hands[next_player(pid)] ELSE hands[Seats[1]]

Prefix(seq, n) == SubSeq(seq, 1, IF Len(seq) < n THEN Len(seq) ELSE n)

\* lists of cards a caller passes.  In the passing phase: the chooser's
\* three, two cards only, the three lowest cards of another hand; and while calls are
\* free the three lowest cards of the hand and, for the first seat to submit,
\* its lowest card listed three times.
\* In the other phases: the three lowest cards of the hand.
PassInputs(pid) ==
  LET hand == hands_get(hands, pid)
  IN  IF phase = "passing"
      THEN {choose_pass(hand), Prefix(hand, PassSize - 1), Prefix(OtherHand(pid), PassSize)}
             \cup (IF FreeCalls THEN {Prefix(hand, PassSize)} ELSE {})
             \cup (IF FreeCalls /\ pending_pass = <<>> /\ hand # <<>>
                   THEN {[i \in 1..PassSize |-> hand[1]]} ELSE {})
      ELSE {Prefix(hand, PassSize)}

\* cards a caller plays.  The seat to play: the chooser's pick among the legal
\* moves, the first card of its hand that is no legal move, the first card of
\* another hand; and while calls are free the last legal move.  Any other
\* caller, and any caller outside the playing phase: the first of the moves
\* that would be legal for it, or the two of clubs when it holds no card.
PlayInputs(pid) ==
  LET hand == hands_get(hands, pid)
      legal == legal_moves(hand, trick, hearts_broken, trick_index = 0)
      illegal == SelectSeq(hand, LAMBDA c : ~Contains(legal, c))
  IN  IF phase = "playing" /\ pid = current_turn
      THEN (IF legal # <<>> THEN {choose_play(legal)} ELSE {})
             \cup (IF illegal # <<>> THEN {illegal[1]} ELSE {})
             \cup (IF OtherHand(pid) # <<>> THEN {OtherHand(pid)[1]} ELSE {})
             \cup (IF FreeCalls /\ legal # <<>> THEN {legal[Len(legal)]} ELSE {})
      ELSE IF legal # <<>> THEN {legal[1]} ELSE { <<"2", "C">> }

\* the first deal is any of the shuffles; the deals of the later rounds take
\* the shuffles in turn
NextShuffle == (round_index % NumShuffles) + 1

\* the calls on the game of a room at rest
Next ==
  \/ (\E k \in 1..NumShuffles : StartGame(k)) /\ UNCHANGED <<roomVars, lmVars>>
  \/ StartNextRound(NextShuffle) /\ UNCHANGED <<roomVars, lmVars>>
  \/ (\E pid \in Callers : \E cards \in PassInputs(pid) : SubmitPass(pid, cards))
       /\ UNCHANGED <<roomVars, lmVars>>
  \/ (\E pid \in Callers : \E card \in PlayInputs(pid) : PlayCard(pid, card))
       /\ UNCHANGED <<roomVars, lmVars>>

Spec == Init /\ [][Next]_vars

(***************************************************************************)
(* legal_moves as a function of its arguments: every sorted hand of up to  *)
(* MaxLegalHand cards of a pool, every trick of up to MaxLegalTrick of the *)
(* other cards, both values of hearts_broken and is_first_trick.           *)
(***************************************************************************)
LegalPool ==
  sort_hand(<< <<"2", "C">>, <<"K", "C">>, <<"5", "D">>, <<"3", "S">>,
               <<"Q", "S">>, <<"4", "H">>, <<"A", "H">> >>)

LegalHands ==
  {SelectSeq(LegalPool, LAMBDA c : c \in S) :
     S \in {T \in SUBSET SeqSetOf(LegalPool) : Cardinality(T) <= MaxLegalHand}}

LegalTricks(hand) ==
  LET rest == SeqSetOf(LegalPool) \ SeqSetOf(hand)
  IN  UNION {{[i \in 1..n |-> <<Seats[i], f[i]>>] :
                f \in {g \in [1..n -> rest] : \A i, j \in 1..n : g[i] = g[j] => i = j}} :
             n \in 0..MaxLegalTrick}

LegalInit ==
  /\ NewGame
  /\ RoomAtRest
  /\ \E hand \in LegalHands : \E t \in LegalTricks(hand) : \E broken, first \in BOOLEAN :
       lm_args = [hand |-> hand, trick |-> t, hearts_broken |-> broken,
                  is_first_trick |-> first]
  /\ lm_result = <<>>

\* one call of legal_moves; the result is kept as a one-element tuple
LegalCall ==
  /\ lm_result = <<>>
  /\ lm_result' = <<legal_moves(lm_args.hand, lm_args.trick, lm_args.hearts_broken,
                                lm_args.is_first_trick)>>
  /\ UNCHANGED <<gameVars, scored, ret, raises, roomVars, lm_args>>

LegalNext == LegalCall

LegalSpec == LegalInit /\ [][LegalNext]_vars

(***************************************************************************)
(* The game as one value: what the room's handlers and advance_bots call   *)
(* one after another inside one critical section.                          *)
(***************************************************************************)
GameRec ==
  [scores |-> scores, hands |-> hands, hearts_broken |-> hearts_broken,
   trick |-> trick, last_trick |-> last_trick, current_turn |-> current_turn,
   round_index |-> round_index, trick_index |-> trick_index, phase |-> phase,
   pass_dir |-> pass_dir, pending_pass |-> pending_pass,
   taken_points_round |-> taken_points_round, winner_id |-> winner_id]

SetGame(g) ==
  /\ scores' = g.scores
  /\ hands' = g.hands
  /\ hearts_broken' = g.hearts_broken
  /\ trick' = g.trick
  /\ last_trick' = g.last_trick
  /\ current_turn' = g.current_turn
  /\ round_index' = g.round_index
  /\ trick_index' = g.trick_index
  /\ phase' = g.phase
  /\ pass_dir' = g.pass_dir
  /\ pending_pass' = g.pending_pass
  /\ taken_points_round' = g.taken_points_round
  /\ winner_id' = g.winner_id

\* HeartsGame(players): the value NewGame describes; room.game = None is
\* this value too, its phase "lobby" standing for "no game"
new_game ==
  [scores |-> [pid \in SeatSet |-> 0], hands |-> [pid \in SeatSet |-> <<>>],
   hearts_broken |-> FALSE, trick |-> <<>>, last_trick |-> <<>>,
   current_turn |-> None, round_index |-> 0, trick_index |-> 0,
   phase |-> "lobby", pass_dir |-> PASS_LEFT, pending_pass |-> <<>>,
   taken_points_round |-> [pid \in SeatSet |-> 0], winner_id |-> None]

\* start_round as a function of the game
round_started(g, k) ==
  LET dealt == deal_hands(Shuffle(k))
      dir == g.round_index % NumPassDirs
  IN  [g EXCEPT !.hands = dealt, !.trick = <<>>, !.last_trick = <<>>,
                !.hearts_broken = FALSE, !.trick_index = 0, !.pending_pass = <<>>,
                !.taken_points_round = [pid \in SeatSet |-> 0], !.pass_dir = dir,
                !.phase = IF dir = PASS_HOLD THEN "playing" ELSE "passing",
                !.current_turn = IF dir = PASS_HOLD THEN find_two_clubs_player(dealt)
                                 ELSE None]

\* start_next_round as a function of the game
next_round_started(g, k) == IF g.phase # "round_end" THEN g ELSE round_started(g, k)

\* submit_pass ends in the ValueError of list.remove, line 186
pass_raises(g, pid, cards) ==
  /\ g.phase = "passing"
  /\ Len(cards) = PassSize
  /\ \A i \in 1..Len(cards) : Contains(hands_get(g.hands, pid), cards[i])
  /\ LET pending == Upsert(g.pending_pass, pid, cards)
     IN  /\ Len(pending) = Len(Seats)
         /\ RemoveLoop(g.hands, RemovalOps(pending)).raised

\* submit_pass as a function of the game; where list.remove raises, the game
\* is as the removals before it left it
submit_pass(g, pid, cards) ==
  IF ~(/\ g.phase = "passing"
       /\ Len(cards) = PassSize
       /\ \A i \in 1..Len(cards) : Contains(hands_get(g.hands, pid), cards[i]))
  THEN g
  ELSE
    LET pending == Upsert(g.pending_pass, pid, cards)
    IN  IF Len(pending) < Len(Seats)
        THEN [g EXCEPT !.pending_pass = pending]
        ELSE
          LET rm == RemoveLoop(g.hands, RemovalOps(pending))
          IN  IF rm.raised
              THEN [g EXCEPT !.hands = rm.hands, !.pending_pass = pending]
              ELSE
                LET given == ExtendLoop(rm.hands, pass_map(g.pass_dir), pending)
                    sorted == [p \in SeatSet |-> sort_hand(given[p])]
                IN  [g EXCEPT !.hands = sorted, !.pending_pass = <<>>,
                              !.phase = "playing",
                              !.current_turn = find_two_clubs_player(sorted)]

get_legal_moves(g, pid) ==
  legal_moves(hands_get(g.hands, pid), g.trick, g.hearts_broken, g.trick_index = 0)

\* lines 201-212 of play_card as a function of the game
play_accepted(g, pid, card) ==
  /\ g.phase = "playing"
  /\ g.current_turn = pid
  /\ Contains(hands_get(g.hands, pid), card)
  /\ Contains(get_legal_moves(g, pid), card)

\* finish_round as a function of the game
round_finished(g, taken) ==
  LET sc == round_scores(g.scores, taken)
  IN  [g EXCEPT !.scores = sc, !.round_index = g.round_index + 1,
                !.phase = IF game_is_over(sc) THEN "game_over" ELSE "round_end",
                !.winner_id = IF game_is_over(sc) THEN min_score_seat(sc) ELSE g.winner_id]

\* play_card as a function of the game
play_card(g, pid, card) ==
  IF ~play_accepted(g, pid, card) THEN g
  ELSE
    LET hands1 == [g.hands EXCEPT ![pid] = RemoveFirst(@, card)]
        trick1 == Append(g.trick, <<pid, card>>)
        g1 == [g EXCEPT !.hands = hands1,
                        !.hearts_broken = hearts_after(card, g.hearts_broken)]
    IN  IF Len(trick1) < Len(Seats)
        THEN [g1 EXCEPT !.trick = trick1,
                        !.last_trick = IF g.trick = <<>> THEN <<>> ELSE g.last_trick,
                        !.current_turn = next_player(pid)]
        ELSE
          LET winner == trick_winner(trick1)
              taken == [g.taken_points_round EXCEPT ![winner] = @ + SumPoints(trick1)]
              g2 == [g1 EXCEPT !.taken_points_round = taken, !.last_trick = trick1,
                               !.trick = <<>>, !.current_turn = winner]
          IN  IF \A p \in SeatSet : Len(hands1[p]) = 0
              THEN round_finished(g2, taken)
              ELSE [g2 EXCEPT !.trick_index = g.trick_index + 1]

\* the calls of Next seen as functions of the game: each step of the game is
\* the step its function gives
EngineAgreement ==
  [][/\ \A k \in 1..NumShuffles : StartGame(k) => GameRec' = round_started(new_game, k)
     /\ StartNextRound(NextShuffle) => GameRec' = next_round_started(GameRec, NextShuffle)
     /\ \A pid \in Callers : \A cards \in PassInputs(pid) :
          SubmitPass(pid, cards) => GameRec' = submit_pass(GameRec, pid, cards)
     /\ \A pid \in Callers : \A card \in PlayInputs(pid) :
          PlayCard(pid, card) => GameRec' = play_card(GameRec, pid, card)]_vars

(***************************************************************************)
(* main.py: the room.  Players are named by their place in room.players:   *)
(* Seats[i] is the i-th key of the dict.  A player that leaves the lobby   *)
(* is popped and the later ones move up one place.                         *)
(*                                                                         *)
(* A broadcast runs after the lock is released, one send per connection.   *)
(* A send serialises the state and then awaits the websocket: it may       *)
(* return at once or suspend, and other tasks run while it is suspended.   *)
(* What a suspended send carries reaches its connection when the send      *)
(* returns, before or after what other tasks have sent to it meanwhile.    *)
(***************************************************************************)
Places == 1..Len(roster)

Place(pid) == IndexOf(Seats, pid) + 1

\* PlayerState.is_bot of the player at a place
is_bot_any(status) == TRUE

is_bot(status) == status \in {"bot", "left"}

\* the keys of ros's connections, in dict order: the connected humans, those
\* whose room_socket ended in an exception included
ViewerSeq(ros) ==
  LET idx == SelectSeq([i \in 1..Len(ros) |-> i], LAMBDA i : ros[i] \in {"human", "dead"})
  IN  [k \in 1..Len(idx) |-> Seats[idx[k]]]

Viewers == SeqSetOf(ViewerSeq(roster))

\* the tasks suspended in a send
Suspended == {t \in Tasks : sending[t] # <<>>}

\* one more send may suspend after slow have
MaySuspend(slow) == slow < MaxSlowSends

\* one more critical section may run before the suspended sends return
MayOvertake == Suspended = {} \/ overtakes < MaxOvertakes

\* a critical section has run
Overtook ==
  overtakes' = (IF Suspended = {} \/ \A t \in Tasks : sending'[t] = <<>>
                THEN 0 ELSE overtakes + 1)

\* a step outside the lock has run
NotOvertook ==
  overtakes' = (IF \A t \in Tasks : sending'[t] = <<>> THEN 0 ELSE overtakes)

\* async with room.lock without the wait
acquirable_always(l) == TRUE

\* async with room.lock: the body runs once no task holds the lock
acquirable(l) == l = "free"

\* the task room.bot_task referred to, after schedule_bot_tick replaced it
\* without cancelling it
superseded_kept(task) == task

\* lines 215-216: a task that is not done is cancelled; cancel() on a task
\* still asleep makes it end without running, cancel() on a task that has
\* run advance_bots takes effect at the suspension it is in or reaches next
superseded(task) ==
  IF task \in {"sleeping", "due"} THEN "cancelled"
  ELSE IF task \in {"running", "sending"} THEN "interrupted"
  ELSE task

\* schedule_bot_tick called with room.bot_task in state task
Scheduled(task) ==
  /\ next_action_at' = "future"
  /\ prev_task' = superseded(task)
  /\ bot_task' = "sleeping"

\* the sends in flight once the state has changed: what they carry is old
Aged(snd) ==
  [t \in Tasks |-> IF snd[t] = <<>> THEN <<>> ELSE <<[snd[t][1] EXCEPT !.fresh = FALSE]>>]

\* the places at which the sends of task t to the viewers vs can stop: after
\* the last one, or at any send that suspends
Stops(vs, slow) == {j \in 0..Len(vs) : j = Len(vs) \/ MaySuspend(slow)}

\* task t sends to the viewers vs in turn, lines 209-211: the first j sends
\* return at once, the next one suspends with the state it serialised
ServeTo(t, vs, snd, st, slow, j) ==
  LET served == {vs[k] : k \in 1..j}
  IN  /\ stale' = st \ served
      /\ slow_sends' = (IF j = Len(vs) THEN slow ELSE slow + 1)
      /\ sending' =
           IF j = Len(vs)
           THEN [snd EXCEPT ![t] = <<>>]
           ELSE [snd EXCEPT ![t] = <<[to |-> vs[j + 1], fresh |-> TRUE, listed |-> TRUE,
                                      rest |-> SubSeq(vs, j + 2, Len(vs))]>>]

RECURSIVE BotPasses(_, _, _)
\* lines 237-241: the loop over room.players from place i on, ended by the
\* exception of a submit_pass
BotPasses(g, ros, i) ==
  IF i > Len(ros) THEN [game |-> g, raised |-> FALSE]
  ELSE LET pid == Seats[i]
           cards == choose_pass(hands_get(g.hands, pid))
       IN  IF is_bot(ros[i]) /\ ~\E j \in 1..Len(g.pending_pass) : g.pending_pass[j][1] = pid
           THEN IF pass_raises(g, pid, cards)
                THEN [game |-> submit_pass(g, pid, cards), raised |-> TRUE]
                ELSE BotPasses(submit_pass(g, pid, cards), ros, i + 1)
           ELSE BotPasses(g, ros, i + 1)

Idle(g) == [game |-> g, armed |-> FALSE, raised |-> FALSE]

\* lines 242-244 after the loop left b
Passed(b) ==
  [game |-> b.game, armed |-> ~b.raised /\ b.game.phase = "playing", raised |-> b.raised]

\* advance_bots on game g with players ros: the game it leaves, whether it
\* called schedule_bot_tick and whether it ended in an exception
advance_bots(g, ros, due_time) ==
  IF g.phase = "lobby" \/ due_time = "future" THEN Idle(g)
  ELSE IF g.phase = "passing"
  THEN Passed(BotPasses(g, ros, 1))
  ELSE IF g.phase # "playing" THEN Idle(g)
  ELSE LET current == g.current_turn
       IN  IF current = None THEN Idle(g)
           ELSE IF ~is_bot(ros[Place(current)]) THEN Idle(g)
           ELSE LET legal == get_legal_moves(g, current)
                IN  IF legal = <<>> THEN Idle(g)
                    ELSE [game |-> play_card(g, current, choose_play(legal)),
                          armed |-> TRUE, raised |-> FALSE]

\* line 142 and what precedes it: the message of the player at place i left
\* the players ros and next_action_at due_time, sched tells whether its
\* branch called schedule_bot_tick, and a is what advance_bots, or the
\* exception before it, left
Advanced(i, ros, due_time, sched, a) ==
  LET arms == ~a.raised /\ (sched \/ a.armed)
      mutated == a.game # GameRec \/ ros # roster
      dropped == arms /\ sending["tick"] # <<>>
      snd0 == IF dropped THEN [sending EXCEPT !["tick"] = <<>>] ELSE sending
      snd1 == IF mutated THEN Aged(snd0) ELSE snd0
      slow == IF dropped THEN slow_sends - 1 ELSE slow_sends
      st == IF mutated THEN SeqSetOf(ViewerSeq(ros)) ELSE stale
  IN  /\ SetGame(a.game)
      /\ IF arms
         THEN Scheduled(bot_task)
         ELSE next_action_at' = due_time /\ UNCHANGED <<bot_task, prev_task>>
      /\ IF a.raised
         THEN /\ roster' = [ros EXCEPT ![i] = "dead"]
              /\ stale' = st
              /\ sending' = snd1
              /\ raises' = raises + 1
              /\ slow_sends' = slow
         ELSE /\ roster' = ros
              /\ UNCHANGED raises
              /\ \E j \in Stops(ViewerSeq(ros), slow) :
                   ServeTo(Seats[i], ViewerSeq(ros), snd1, st, slow, j)
      /\ UNCHANGED <<host_id, lock, scored, ret, lmVars>>

\* lines 110-142 after the branch of the message of the player at place i:
\* g and ros are the game and the players the branch left, due_time is
\* next_action_at as it left it, sched whether it called schedule_bot_tick,
\* raised whether it ended in an exception.  Then advance_bots, still under
\* the lock, and after the release the broadcast.  An exception of the
\* branch or of advance_bots leaves room_socket: nothing is broadcast, the
\* connection stays in room.players and room.connections and no message of
\* it is read any more.  A tick cancelled in a send of its broadcast waits
\* for that send no more.
Handled(i, g, ros, due_time, sched, raised) ==
  Advanced(i, ros, due_time, sched,
           IF raised THEN [game |-> g, armed |-> FALSE, raised |-> TRUE]
           ELSE advance_bots(g, ros, IF sched THEN "future" ELSE due_time))

\* an empty room
RoomInit ==
  /\ NewGame
  /\ NoLegalCall
  /\ roster = <<>>
  /\ host_id = None
  /\ lock = "free"
  /\ next_action_at = "past"
  /\ bot_task = "none"
  /\ prev_task = "none"
  /\ stale = {}
  /\ sending = [t \in Tasks |-> <<>>]
  /\ slow_sends = 0
  /\ overtakes = 0

\* Room.add_player, lines 35-38
CanAdd == Len(roster) < max_players /\ phase = "lobby"

\* the connected players
Humans == {i \in Places : roster[i] = "human"}

\* lines 96-104: a connection that add_player accepts; after the release
\* send_state to it, line 103, and once that send has returned, the joiner
\* holding the state, the broadcast, which reads the connections then
Join ==
  /\ acquirable(lock)
  /\ CanAdd
  /\ Cardinality(Humans) < MaxHumans
  /\ LET ros == Append(roster, "human")
         me == Seats[Len(ros)]
         vs == ViewerSeq(ros)
     IN  /\ roster' = ros
         /\ \/ /\ MaySuspend(slow_sends)
               /\ stale' = SeqSetOf(vs)
               /\ slow_sends' = slow_sends + 1
               /\ sending' = [Aged(sending) EXCEPT
                                ![me] = <<[to |-> me, fresh |-> TRUE, listed |-> FALSE,
                                           rest |-> <<>>]>>]
            \/ \E j \in Stops(vs, slow_sends) :
                 ServeTo(me, vs, Aged(sending), SeqSetOf(vs) \ {me}, slow_sends, j)
  /\ host_id' = (IF host_id = None THEN Seats[Len(roster) + 1] ELSE host_id)
  /\ UNCHANGED <<gameVars, scored, ret, raises, lmVars, lock, next_action_at,
                 bot_task, prev_task>>

\* lines 96-100: a connection that add_player rejects sits in
\* websocket.close() with the lock held
JoinRejected ==
  /\ acquirable(lock)
  /\ ~CanAdd
  /\ lock' = "join"
  /\ UNCHANGED <<gameVars, scored, ret, raises, lmVars, roster, host_id,
                 next_action_at, bot_task, prev_task, stale, sending, slow_sends>>

\* websocket.close() returns and the rejected connection leaves the lock
JoinClosed ==
  /\ lock = "join"
  /\ lock' = "free"
  /\ UNCHANGED <<gameVars, scored, ret, raises, lmVars, roster, host_id,
                 next_action_at, bot_task, prev_task, stale, sending, slow_sends>>

\* the players whose room_socket waits in receive_json, line 108
Readers == {i \in Humans : sending[Seats[i]] = <<>>}

\* lines 111-114
AddBotMsg(i) ==
  /\ acquirable(lock)
  /\ Handled(i, GameRec,
             IF Seats[i] = host_id /\ CanAdd THEN Append(roster, "bot") ELSE roster,
             next_action_at, FALSE, FALSE)

\* line 116
StartGameAccepted(i) == Seats[i] = host_id /\ Len(roster) = max_players

\* lines 115-119
StartGameMsg(i) ==
  /\ acquirable(lock)
  /\ IF StartGameAccepted(i)
     THEN Handled(i, round_started(new_game, 1), roster, "past", FALSE, FALSE)
     ELSE Handled(i, GameRec, roster, next_action_at, FALSE, FALSE)

\* line 121 and start_next_round's check of the phase
StartRoundAccepted(i) == Seats[i] = host_id /\ phase = "round_end"

\* lines 120-123; next_action_at = 0.0 whatever start_next_round returns
StartRoundMsg(i) ==
  /\ acquirable(lock)
  /\ StartRoundAccepted(i) => round_index <= MaxRoomRounds
  /\ IF Seats[i] = host_id /\ phase # "lobby"
     THEN Handled(i, next_round_started(GameRec, NextShuffle), roster, "past", FALSE, FALSE)
     ELSE Handled(i, GameRec, roster, next_action_at, FALSE, FALSE)

\* lines 124-128; the tick is armed whenever the phase is "playing" after
\* submit_pass, accepted or not
PassCardsMsg(i, cards) ==
  /\ acquirable(lock)
  /\ IF phase = "lobby"
     THEN Handled(i, GameRec, roster, next_action_at, FALSE, FALSE)
     ELSE LET g == submit_pass(GameRec, Seats[i], cards)
          IN  Handled(i, g, roster, next_action_at, g.phase = "playing",
                      pass_raises(GameRec, Seats[i], cards))

\* lines 129-138
PlayCardMsg(i, card) ==
  /\ acquirable(lock)
  /\ IF phase = "lobby"
     THEN Handled(i, GameRec, roster, next_action_at, FALSE, FALSE)
     ELSE Handled(i, play_card(GameRec, Seats[i], card), roster, next_action_at,
                  play_accepted(GameRec, Seats[i], card), FALSE)

\* room.players without the player at place i
Without(ros, i) == [j \in 1..(Len(ros) - 1) |-> IF j < i THEN ros[j] ELSE ros[j + 1]]

\* the name of player pid once the player at place i is popped
MovedUp(pid, i) == IF pid \in SeatSet /\ Place(pid) > i THEN Seats[Place(pid) - 1] ELSE pid

\* a send in flight once the player at place i is popped: the send to that
\* player reaches nobody
SendMovedUp(s, i) ==
  IF s = <<>> THEN <<>>
  ELSE <<[to |-> IF s[1].to = Seats[i] THEN None ELSE MovedUp(s[1].to, i),
          fresh |-> FALSE,
          listed |-> s[1].listed,
          rest |-> LET kept == SelectSeq(s[1].rest, LAMBDA p : p # Seats[i])
                   IN  [k \in 1..Len(kept) |-> MovedUp(kept[k], i)]]>>

\* the tasks once the player at place i is popped: the room_socket of a
\* later player goes by the player's new name
TasksMovedUp(snd, i) ==
  [t \in Tasks |->
     IF t \in SeatSet
     THEN IF Place(t) < i THEN SendMovedUp(snd[t], i)
          ELSE IF Place(t) < Len(Seats) THEN SendMovedUp(snd[Seats[Place(t) + 1]], i)
          ELSE <<>>
     ELSE SendMovedUp(snd[t], i)]

\* lines 144-147 and remove_player: in a game the player becomes a bot and
\* host_id stays; in the lobby the player is popped and the host is the
\* first player left.  The host of a lobby is always its first player, so
\* after the move up the first player left is Seats[1] again.  The broadcast
\* is the last thing the player's room_socket does: in a game it goes by the
\* seat's name, in the lobby, where the name passes to the next player, by
\* "gone"; while a player that left is suspended in a send, the sends of
\* the next one to leave return at once.
Disconnect(i) ==
  /\ acquirable(lock)
  /\ IF phase # "lobby"
     THEN LET ros == [roster EXCEPT ![i] = "left"]
          IN  /\ roster' = ros
              /\ UNCHANGED host_id
              /\ \E j \in Stops(ViewerSeq(ros), slow_sends) :
                   ServeTo(Seats[i], ViewerSeq(ros), Aged(sending), SeqSetOf(ViewerSeq(ros)),
                           slow_sends, j)
     ELSE LET ros == Without(roster, i)
          IN  /\ roster' = ros
              /\ host_id' = (IF Seats[i] # host_id THEN host_id
                             ELSE IF Len(roster) > 1 THEN Seats[1] ELSE None)
              /\ IF sending["gone"] = <<>>
                 THEN \E j \in Stops(ViewerSeq(ros), slow_sends) :
                        ServeTo("gone", ViewerSeq(ros), TasksMovedUp(sending, i),
                                SeqSetOf(ViewerSeq(ros)), slow_sends, j)
                 ELSE /\ stale' = {}
                      /\ sending' = TasksMovedUp(sending, i)
                      /\ UNCHANGED slow_sends
  /\ UNCHANGED <<gameVars, scored, ret, raises, lmVars, lock, next_action_at,
                 bot_task, prev_task>>

\* the clock reaches next_action_at, line 233: the time line 214 set, before
\* the task it created began its sleep
Elapse ==
  /\ next_action_at = "future"
  /\ next_action_at' = "past"
  /\ UNCHANGED <<gameVars, scored, ret, raises, lmVars, roster, host_id, lock,
                 bot_task, prev_task, stale, sending, slow_sends>>

\* the sleep of _runner ends, line 219: it began after line 214 took the
\* time, and ends after the clock has reached next_action_at
SleepOver ==
  /\ bot_task = "sleeping"
  /\ next_action_at = "past"
  /\ bot_task' = "due"
  /\ UNCHANGED <<gameVars, scored, ret, raises, lmVars, roster, host_id, lock,
                 next_action_at, prev_task, stale, sending, slow_sends>>

\* lines 220-222 once advance_bots has left a: the release of the lock, then
\* the broadcast.  When advance_bots armed the next tick it cancelled the
\* task that runs it, and the broadcast ends at its first send that
\* suspends, that send lost.  An exception of advance_bots ends the task
\* before the broadcast.
Ticked(a) ==
  /\ LET mutated == a.game # GameRec
         snd == IF mutated THEN Aged(sending) ELSE sending
         st == IF mutated THEN Viewers ELSE stale
         vs == ViewerSeq(roster)
     IN  /\ SetGame(a.game)
         /\ IF a.raised
            THEN /\ bot_task' = "done"
                 /\ stale' = st
                 /\ sending' = snd
                 /\ raises' = raises + 1
                 /\ UNCHANGED <<next_action_at, prev_task, slow_sends>>
            ELSE IF a.armed
            THEN /\ Scheduled("running")
                 /\ UNCHANGED raises
                 /\ \E j \in 0..Len(vs) : stale' = st \ {vs[k] : k \in 1..j}
                 /\ sending' = snd
                 /\ UNCHANGED slow_sends
            ELSE /\ \E j \in Stops(vs, slow_sends) :
                      /\ ServeTo("tick", vs, snd, st, slow_sends, j)
                      /\ bot_task' = (IF j = Len(vs) THEN "done" ELSE "sending")
                 /\ UNCHANGED <<next_action_at, prev_task, raises>>
  /\ UNCHANGED <<scored, ret, lmVars, roster, host_id, lock>>

\* _runner after its sleep, lines 219-222
FireTick ==
  /\ bot_task = "due"
  /\ acquirable(lock)
  /\ Ticked(advance_bots(GameRec, roster, next_action_at))

\* what the viewers have once a send returns that carried to viewer to the
\* state as it is (fresh) or as it was: an old state that arrives last
\* replaces what the viewer had
Arrived(to, fresh, last) ==
  IF to \notin Viewers THEN stale
  ELSE IF fresh THEN stale \ {to}
  ELSE IF last THEN stale \cup {to}
  ELSE stale

\* the suspended send of task t returns: its viewer has what it carried, and
\* the task goes on with the connections left of its list, line 210, those
\* popped since skipped by send_state, line 161; after the send of line 103
\* it reads the list, line 209
Resume(t) ==
  /\ sending[t] # <<>>
  /\ LET s == sending[t][1]
         vs == IF s.listed THEN SelectSeq(s.rest, LAMBDA p : p \in Viewers)
               ELSE ViewerSeq(roster)
     IN  \E last \in BOOLEAN : \E j \in Stops(vs, slow_sends) :
           /\ ServeTo(t, vs, sending, Arrived(s.to, s.fresh, last), slow_sends, j)
           /\ bot_task' = (IF t = "tick" /\ j = Len(vs) THEN "done" ELSE bot_task)
  /\ UNCHANGED <<gameVars, scored, ret, raises, lmVars, roster, host_id, lock,
                 next_action_at, prev_task>>

\* what a player sends: the chooser's three cards, no cards, and while no
\* call has ended in an exception its lowest card listed three times
RoomPassInputs(i) ==
  LET hand == hands_get(hands, Seats[i])
  IN  {choose_pass(hand), <<>>}
        \cup (IF raises < MaxRoomRaises /\ phase = "passing" /\ hand # <<>>
              THEN {[k \in 1..PassSize |-> hand[1]]} ELSE {})

\* what a player sends: the chooser's pick among its legal moves, or the two
\* of clubs when it has none
RoomPlayInputs(i) ==
  LET legal == get_legal_moves(GameRec, Seats[i])
  IN  IF legal # <<>> THEN {choose_play(legal)} ELSE {TwoOfClubs}

RoomNext ==
  \/ MayOvertake /\ Join /\ Overtook
  \/ MayOvertake /\ JoinRejected /\ Overtook
  \/ JoinClosed /\ NotOvertook
  \/ MayOvertake /\ (\E i \in Readers : AddBotMsg(i)) /\ Overtook
  \/ MayOvertake /\ (\E i \in Readers : StartGameMsg(i)) /\ Overtook
  \/ MayOvertake /\ (\E i \in Readers : StartRoundMsg(i)) /\ Overtook
  \/ MayOvertake /\ (\E i \in Readers : \E cards \in RoomPassInputs(i) : PassCardsMsg(i, cards))
       /\ Overtook
  \/ MayOvertake /\ (\E i \in Readers : \E card \in RoomPlayInputs(i) : PlayCardMsg(i, card))
       /\ Overtook
  \/ MayOvertake /\ (\E i \in Readers : Disconnect(i)) /\ Overtook
  \/ Elapse /\ NotOvertook
  \/ SleepOver /\ NotOvertook
  \/ MayOvertake /\ FireTick /\ Overtook
  \/ (\E t \in Tasks : Resume(t)) /\ NotOvertook

RoomSpec == RoomInit /\ [][RoomNext]_vars

\* armed timers fire, a closing connection closes, a suspended send returns
\* and the lock is granted to the tick that waits for it
FairSpec ==
  /\ RoomSpec
  /\ WF_vars(Elapse /\ NotOvertook)
  /\ WF_vars(SleepOver /\ NotOvertook)
  /\ WF_vars(JoinClosed /\ NotOvertook)
  /\ WF_vars((\E t \in Tasks : Resume(t)) /\ NotOvertook)
  /\ SF_vars(MayOvertake /\ FireTick /\ Overtook)

(***************************************************************************)
(* Properties.                                                             *)
(***************************************************************************)
HandSize == Len(make_deck) \div Len(Seats)

RECURSIVE Flatten(_)
Flatten(seqs) == IF seqs = <<>> THEN <<>> ELSE seqs[1] \o Flatten(Tail(seqs))

\* the cards in the four hands, in the current trick and in the tricks
\* completed in this round
AllCards ==
  Flatten([i \in 1..Len(Seats) |-> hands[Seats[i]]])
    \o TrickCards(trick)
    \o scored

CountOf(seq, x) == Cardinality({i \in 1..Len(seq) : seq[i] = x})

\* C1: once a round has been dealt, the hands, the current trick and the
\* tricks completed in the round hold each card of the deck exactly once.
C1_DeckIntegrity ==
  phase # "lobby" =>
    /\ Len(AllCards) = Len(make_deck)
    /\ \A c \in Deck : CountOf(AllCards, c) = 1

\* a card has left the game: fewer than 52 cards are held, played or scored
C1_CardLost == phase # "lobby" /\ Len(AllCards) < Len(make_deck)

HasDuplicate(cards) ==
  \E i \in 1..Len(cards) : \E j \in 1..Len(cards) : i < j /\ cards[i] = cards[j]

Malformed(pid, cards) ==
  \/ phase # "passing"
  \/ Len(cards) # PassSize
  \/ \E i \in 1..Len(cards) : ~Contains(hands_get(hands, pid), cards[i])
  \/ HasDuplicate(cards)

\* C2: no submit_pass call raises, and a call in another phase than passing,
\* with other than 3 cards, with a card the seat does not hold or with a card
\* listed twice returns false and changes no field of the GameState.
C2_MalformedPassRejected ==
  [][\A pid \in Callers : \A cards \in PassInputs(pid) :
       SubmitPass(pid, cards) =>
         /\ ret' # "raised"
         /\ Malformed(pid, cards) => (ret' = "False" /\ UNCHANGED gameVars)]_vars

\* a submit_pass call has raised
C2_Raised == ret = "raised"

\* the condition of C3, in the claim's words
C3_Legal(pid, card) ==
  /\ phase = "playing"
  /\ pid = current_turn
  /\ Contains(legal_moves(hands_get(hands, pid), trick, hearts_broken, trick_index = 0), card)

\* C3: play_card(seat, card) returns true exactly when the phase is playing,
\* the seat is current_turn and the card is among the seat's legal moves;
\* otherwise it returns false and changes no field of the GameState.
C3_PlayAcceptedIffLegal ==
  [][UNCHANGED vars \/
     \A pid \in Callers : \A card \in PlayInputs(pid) :
       PlayCard(pid, card) =>
         /\ (ret' = "True") <=> C3_Legal(pid, card)
         /\ ~C3_Legal(pid, card) => (ret' = "False" /\ UNCHANGED gameVars)]_vars

\* a play has been accepted: two cards lie in the trick after a call that
\* returned true
C3_Witness == phase = "playing" /\ Len(trick) = 2 /\ ret = "True"

SeqSet(seq) == {seq[i] : i \in 1..Len(seq)}

\* the seats with a submission in pending_pass
Submitted == {pending_pass[i][1] : i \in 1..Len(pending_pass)}

\* the last submission of seat q once pid has submitted cards
LastPass(q, pid, cards) ==
  IF q = pid THEN cards
  ELSE pending_pass[CHOOSE i \in 1..Len(pending_pass) : pending_pass[i][1] = q][2]

\* C4: a submit_pass call in the passing phase either is the accepted
\* submission that completes the four seats' submissions, and then all twelve
\* chosen cards leave their owners for other seats in that step, pending_pass
\* is empty, the phase is playing and every hand holds 13 cards; or it changes
\* no hand, leaves the phase at passing and fewer than 4 seats submitted.
C4_PassAtomicity ==
  [][\A pid \in Callers : \A cards \in PassInputs(pid) :
       (phase = "passing" /\ SubmitPass(pid, cards)) =>
         IF ret' = "True" /\ Cardinality(Submitted \cup {pid}) = Len(Seats)
         THEN /\ phase' = "playing"
              /\ pending_pass' = <<>>
              /\ \A q \in SeatSet : Len(hands'[q]) = HandSize
              /\ \A q \in SeatSet : \A c \in SeqSet(LastPass(q, pid, cards)) :
                   /\ ~Contains(hands'[q], c)
                   /\ \E r \in SeatSet \ {q} : Contains(hands'[r], c)
         ELSE /\ hands' = hands
              /\ phase' = "passing"
              /\ Len(pending_pass') < Len(Seats)]_vars

\* a partially applied exchange: the phase is passing and a hand is short
C4_PartialExchange ==
  phase = "passing" /\ \E q \in SeatSet : Len(hands[q]) < HandSize

\* C5: a valid pass of a seat that has submitted before is accepted and does
\* not increase the number of submitted seats; the exchange moves the cards
\* of each seat's last submission out of its hand and leaves its other cards
\* in it; outside the passing phase submit_pass is rejected.
C5_PassUpsert ==
  [][\A pid \in Callers : \A cards \in PassInputs(pid) :
       SubmitPass(pid, cards) =>
         /\ (~Malformed(pid, cards) /\ pid \in Submitted) =>
              (ret' = "True" /\ Len(pending_pass') <= Len(pending_pass))
         /\ (phase = "passing" /\ phase' = "playing") =>
              \A q \in SeatSet :
                /\ \A c \in SeqSet(LastPass(q, pid, cards)) : ~Contains(hands'[q], c)
                /\ \A c \in SeqSet(hands[q]) \ SeqSet(LastPass(q, pid, cards)) :
                     Contains(hands'[q], c)
         /\ phase # "passing" => (ret' = "False" /\ UNCHANGED gameVars)]_vars

\* a valid resubmission has raised: the second failed exchange
C5_ResubmissionRaised ==
  ret = "raised" /\ raises = 2 /\ phase = "passing"

\* position of the seat that receives from position i in round r
Target(i, r) ==
  IF r % 4 = 0 THEN (i + 1) % 4
  ELSE IF r % 4 = 1 THEN (i - 1) % 4
  ELSE (i + 2) % 4

\* C6: the exchange of round r delivers the cards of the seat at position i
\* to position i+1, i-1 or i+2 (mod 4) for r mod 4 = 0, 1, 2; a round with
\* r mod 4 = 3 starts in playing with the hands as dealt, any other round in
\* passing; and on every entry to playing current_turn is the seat whose hand
\* holds the two of clubs.
C6_PassRouting ==
  [][/\ \A pid \in Callers : \A cards \in PassInputs(pid) :
          (phase = "passing" /\ SubmitPass(pid, cards) /\ phase' = "playing") =>
            \A i \in 0..3 : \A c \in SeqSet(LastPass(Seats[i + 1], pid, cards)) :
              Contains(hands'[Seats[Target(i, round_index) + 1]], c)
     /\ (phase \in {"lobby", "round_end"} /\ phase' \notin {"lobby", "round_end"}) =>
          IF round_index % 4 = 3
          THEN /\ phase' = "playing"
               /\ pending_pass' = <<>>
               /\ \E k \in 1..NumShuffles : hands' = deal_hands(Shuffle(k))
          ELSE phase' = "passing"
     /\ (phase # "playing" /\ phase' = "playing") =>
          /\ current_turn' \in SeatSet
          /\ Contains(hands'[current_turn'], TwoOfClubs)]_vars

\* the playing phase has begun with no seat to lead
C6_NoLeader ==
  phase = "playing" /\ trick_index = 0 /\ trick = <<>> /\ current_turn = None

\* C7: the play_card call that is accepted on the empty trick 0 plays the two
\* of clubs, from the hand that has held it since the playing phase began.
C7_OpeningLead ==
  [][(trick_index = 0 /\ trick = <<>> /\ ret' = "True") =>
       \A pid \in Callers : \A card \in PlayInputs(pid) :
         PlayCard(pid, card) =>
           (card = TwoOfClubs /\ Contains(hands_get(hands, pid), TwoOfClubs))]_vars

\* the opening lead of the second round has been accepted
C7_Witness ==
  /\ phase = "playing" /\ round_index = 1 /\ trick_index = 0
  /\ Len(trick) = 1 /\ ret = "True"

RoundCompletes == phase = "playing" /\ phase' \in {"round_end", "game_over"}

\* room.game becomes a new game, lines 117-118: the one call that returns
\* nothing
GameReplaced == ret' = "none" /\ \E k \in 1..NumShuffles : StartGame(k)

\* C8: at the completion of a round, a seat with 26 points taken keeps its
\* score and the other three gain 26; with no such seat each seat gains the
\* points it took.  No step on a game decreases a score of that game: the
\* scores of room.game go back to zero only where a new game takes its place.
C8_MoonScoring ==
  [][/\ RoundCompletes =>
          IF \E s \in SeatSet : taken_points_round'[s] = 26
          THEN \A s \in SeatSet : taken_points_round'[s] = 26 =>
                 /\ scores'[s] = scores[s]
                 /\ \A p \in SeatSet \ {s} : scores'[p] = scores[p] + 26
          ELSE \A p \in SeatSet : scores'[p] = scores[p] + taken_points_round'[p]
     /\ (\A p \in SeatSet : scores'[p] >= scores[p]) \/ GameReplaced]_vars

\* a round shot to the moon has completed after a round that was not
C8_Witness ==
  /\ phase = "round_end"
  /\ \E s \in SeatSet : taken_points_round[s] = 26
  /\ \E p \in SeatSet : scores[p] % 26 # 0

\* C9: a round completion ends in game_over exactly when a score is then at
\* least 100, and in round_end otherwise; game_over is entered at no other
\* step; the winner then set has a minimal score; winner_id is set in no
\* state but game_over; and every call of submit_pass, play_card and
\* start_next_round in game_over is rejected.
C9_GameTermination ==
  /\ [](winner_id # None => phase = "game_over")
  /\ [][/\ RoundCompletes =>
             /\ (phase' = "game_over") <=> (\E p \in SeatSet : scores'[p] >= 100)
             /\ phase' = "game_over" =>
                  /\ winner_id' \in SeatSet
                  /\ \A p \in SeatSet : scores'[winner_id'] <= scores'[p]
        /\ phase' = "game_over" => phase \in {"playing", "game_over"}
        /\ (phase = "game_over" /\ ~GameReplaced) => (ret' = "False" /\ UNCHANGED gameVars)]_vars

\* the game is over with a winner and a call has been rejected since
C9_Witness ==
  phase = "game_over" /\ winner_id \in SeatSet /\ ret = "False"

\* C10: current_turn is defined exactly when the phase is playing and the
\* trick holds fewer than 4 cards.
C10_TurnDefinedIffPlaying ==
  (current_turn # None) <=> (phase = "playing" /\ Len(trick) < 4)

\* a round has ended and current_turn still names a seat
C10_StaleTurn == phase = "round_end" /\ current_turn # None

\* a step of start_round: a deal replaces the hands of the lobby or of a
\* round that has ended
\* a step of start_round: on a new game, or on the game in round_end
RoundStarts ==
  \/ ret' = "none" /\ \E k \in 1..NumShuffles : StartGame(k)
  \/ phase = "round_end" /\ ret' = "True" /\ StartNextRound(NextShuffle)

\* C11: hearts_broken becomes true exactly in the accepted play_card steps
\* that play a heart onto unbroken hearts (the queen of spades leaves it as
\* it is), it becomes false only in a step of start_round, and every step of
\* start_round leaves it false.
C11_HeartsBrokenMonotone ==
  [][IF RoundStarts
     THEN ~hearts_broken'
     ELSE /\ ~(hearts_broken /\ ~hearts_broken')
          /\ (~hearts_broken /\ hearts_broken') =>
               /\ phase = "playing"
               /\ ret' = "True"
               /\ \E pid \in SeatSet : \E c \in SeqSet(hands[pid]) :
                    card_suit(c) = "H" /\ ~Contains(hands'[pid], c)
          /\ \A pid \in SeatSet : \A c \in SeqSet(hands[pid]) :
               (phase = "playing" /\ ~Contains(hands'[pid], c)) =>
                 (hearts_broken' = (hearts_broken \/ card_suit(c) = "H"))]_vars

\* the queen of spades lies in the trick and hearts are not broken
C11_Witness ==
  /\ phase = "playing"
  /\ ~hearts_broken
  /\ \E i \in 1..Len(trick) : trick[i][2] = <<"Q", "S">>

\* the seats that played the highest rank among the cards of the lead suit
HighestOfLead(t) ==
  {t[i][1] : i \in {i \in 1..Len(t) :
     /\ card_suit(t[i][2]) = card_suit(t[1][2])
     /\ \A j \in 1..Len(t) :
          card_suit(t[j][2]) = card_suit(t[1][2]) =>
            RANK_VALUE[card_rank(t[j][2])] <= RANK_VALUE[card_rank(t[i][2])]}}

\* the sum of the point values of the cards of a trick
TrickPoints(t) ==
  Cardinality({i \in 1..Len(t) : card_suit(t[i][2]) = "H"})
    + (IF \E i \in 1..Len(t) : t[i][2] = <<"Q", "S">> THEN 13 ELSE 0)

\* C19: the seats of a trick in progress are distinct and follow one another
\* in seat order; an accepted play of one of the first three cards of a trick
\* hands the turn to the next seat; the accepted fourth card gives the trick
\* to the seat of the highest rank of the lead suit, adds the points of the
\* four cards to what that seat has taken, clears the trick and makes that
\* seat the next to lead; and the round completes in that step exactly when
\* it is the 13th trick, a seat's hand being played out by then.
C19_TrickResolution ==
  /\ [](/\ Len(trick) < Len(Seats)
        /\ trick_index < HandSize
        /\ \A i \in 1..Len(trick) : \A j \in 1..Len(trick) :
             (j = i + 1) =>
               IndexOf(Seats, trick[j][1]) = (IndexOf(Seats, trick[i][1]) + 1) % 4)
  /\ [][(phase = "playing" /\ ret' = "True") =>
        \A pid \in Callers : \A card \in PlayInputs(pid) :
          PlayCard(pid, card) =>
            LET full == Append(trick, <<pid, card>>)
            IN  IF Len(full) < 4
                THEN /\ trick' = full
                     /\ current_turn' = Seats[((IndexOf(Seats, pid) + 1) % 4) + 1]
                     /\ UNCHANGED <<taken_points_round, trick_index, phase>>
                ELSE /\ trick' = <<>>
                     /\ current_turn' \in HighestOfLead(full)
                     /\ taken_points_round' =
                          [taken_points_round EXCEPT ![current_turn'] = @ + TrickPoints(full)]
                     /\ RoundCompletes <=> (trick_index = HandSize - 1)
                     /\ ~RoundCompletes => trick_index' = trick_index + 1]_vars

\* a trick has gone to a seat although another seat played a higher rank in
\* another suit
C19_Witness ==
  /\ phase = "playing" /\ trick = <<>> /\ Len(last_trick) = 4
  /\ \E i \in 1..4 : \E j \in 1..4 :
       /\ last_trick[i][1] = current_turn
       /\ card_suit(last_trick[j][2]) # card_suit(last_trick[1][2])
       /\ RANK_VALUE[card_rank(last_trick[j][2])] > RANK_VALUE[card_rank(last_trick[i][2])]

(***************************************************************************)
(* C12: legal_moves against the resolver for every input.                  *)
(***************************************************************************)
Called == lm_result # <<>>

LegalResult == SeqSetOf(lm_result[1])

LegalHand == SeqSetOf(lm_args.hand)

LeadSuit == card_suit(lm_args.trick[1][2])

\* the resolver when following, the same in both statements
FollowResolver ==
  LET suited == {c \in LegalHand : card_suit(c) = LeadSuit}
      non_points == {c \in LegalHand : ~is_point_card(c)}
  IN  IF suited # {} THEN suited
      ELSE IF lm_args.is_first_trick /\ non_points # {} THEN non_points
      ELSE LegalHand

\* the resolver when leading outside the opening lead with the two-of-clubs
LeadResolver ==
  LET non_hearts == {c \in LegalHand : card_suit(c) # "H"}
  IN  IF ~lm_args.hearts_broken /\ non_hearts # {} THEN non_hearts ELSE LegalHand

\* C12 as stated: the result is empty for an empty hand; when leading, only
\* the two-of-clubs on the first trick if held, otherwise the non-hearts
\* while hearts are unbroken (the whole hand if all hearts) and the whole hand
\* once broken; when following, the lead suit if held, otherwise on the first
\* trick the non-point cards (the whole hand if only point cards), otherwise
\* the whole hand.
C12_ResolverAsStated ==
  Called =>
    LegalResult =
      IF LegalHand = {} THEN {}
      ELSE IF lm_args.trick = <<>>
      THEN (IF lm_args.is_first_trick /\ TwoOfClubs \in LegalHand
            THEN {TwoOfClubs} ELSE LeadResolver)
      ELSE FollowResolver

\* C12: as stated, except that a first-trick lead from a hand without the
\* two-of-clubs yields exactly one card of the hand, whatever hearts_broken
\* is; the result is a duplicate-free subset of the hand, non-empty whenever
\* the hand is non-empty.
C12_LegalMovesResolver ==
  Called =>
    /\ LegalResult \subseteq LegalHand
    /\ Cardinality(LegalResult) = Len(lm_result[1])
    /\ (LegalHand # {}) => (LegalResult # {})
    /\ IF LegalHand = {} THEN LegalResult = {}
       ELSE IF lm_args.trick = <<>>
       THEN (IF lm_args.is_first_trick
             THEN (IF TwoOfClubs \in LegalHand THEN LegalResult = {TwoOfClubs}
                   ELSE Cardinality(LegalResult) = 1)
             ELSE LegalResult = LeadResolver)
       ELSE LegalResult = FollowResolver

\* a first-trick lead from a hand of several cards without the two-of-clubs
\* was resolved to the first card of the hand alone
C12_Witness ==
  /\ Called
  /\ lm_args.trick = <<>>
  /\ lm_args.is_first_trick
  /\ TwoOfClubs \notin LegalHand
  /\ Len(lm_args.hand) >= 2
  /\ lm_result[1] = <<lm_args.hand[1]>>

(***************************************************************************)
(* C13-C18, C20: the room.                                                 *)
(***************************************************************************)
\* a tick that was armed and has neither fired nor been cancelled
Armed(task) == task \in {"sleeping", "due"}

ArmedCount == (IF Armed(bot_task) THEN 1 ELSE 0) + (IF Armed(prev_task) THEN 1 ELSE 0)

\* C13: a room has at most one armed tick that has not fired: the tick that
\* schedule_bot_tick replaces is never left armed, so of two ticks armed
\* before the first one's delay has passed only the later one, the one
\* room.bot_task refers to, can fire and run advance_bots.
C13_BotTickDebounce == ArmedCount <= 1 /\ ~Armed(prev_task)

\* a pending tick was cancelled by the schedule_bot_tick that armed the tick
\* now pending
C13_Witness == prev_task = "cancelled" /\ Armed(bot_task)

SeatStatus(pid) == roster[IndexOf(Seats, pid) + 1]

PendingSeats(pending) == {pending[i][1] : i \in 1..Len(pending)}

CardsHeld(h) == Len(h[Seats[1]]) + Len(h[Seats[2]]) + Len(h[Seats[3]]) + Len(h[Seats[4]])

\* C14: a fired tick does one unit of work on the state it finds.  In the
\* playing phase with an automated seat to play it plays exactly one card,
\* one that play_card accepts from that seat, and arms the next tick; with a
\* human seat to play, or outside passing and playing, it changes nothing of
\* the game and arms nothing.  In the passing phase every automated seat
\* that had not submitted has submitted when the tick ends (or the exchange
\* has fired), and no human seat's submission is added or changed.
C14_OneUnitPerTick ==
  [][(bot_task = "due" /\ bot_task' # "due" /\ FireTick) =>
       IF phase = "playing"
       THEN IF SeatStatus(current_turn) \in {"bot", "left"}
            THEN /\ \E c \in SeqSetOf(hands[current_turn]) :
                      /\ PlayAccepted(current_turn, c)
                      /\ hands' = [hands EXCEPT ![current_turn] = RemoveFirst(@, c)]
                 /\ CardsHeld(hands') = CardsHeld(hands) - 1
                 /\ bot_task' = "sleeping"
            ELSE UNCHANGED gameVars /\ bot_task' \in {"done", "sending"}
       ELSE IF phase = "passing"
       THEN /\ \/ phase' = "playing" /\ bot_task' = "sleeping"
               \/ /\ phase' = "passing"
                  /\ bot_task' \in {"done", "sending"}
                  /\ \A i \in Places : roster[i] \in {"bot", "left"} =>
                       Seats[i] \in PendingSeats(pending_pass')
            /\ \A i \in Places : roster[i] \in {"human", "dead"} =>
                 \A j \in 1..Len(pending_pass') :
                   pending_pass'[j][1] = Seats[i] =>
                     \E k \in 1..Len(pending_pass) : pending_pass[k] = pending_pass'[j]
       ELSE UNCHANGED gameVars /\ bot_task' \in {"done", "sending"}]_vars

\* a tick has played a card for the automated seat that played last and
\* armed the next tick
C14_Witness ==
  /\ prev_task = "interrupted"
  /\ bot_task = "sleeping"
  /\ phase = "playing"
  /\ trick # <<>>
  /\ SeatStatus(trick[Len(trick)][1]) \in {"bot", "left"}

\* no task is in a broadcast, none waits for the lock
Quiescent == Suspended = {} /\ lock = "free"

\* C15: once the broadcast that follows a message, a disconnection or a
\* fired tick is over, every connected viewer has received the state that
\* resulted.
C15_SnapshotAfterMutation == Quiescent => stale = {}

\* a tick that played a card and armed the next tick left a connected viewer
\* without the snapshot: no broadcast is under way, no task has waited for a
\* send and no handler has ended in an exception
C15_StaleViewer ==
  /\ Quiescent
  /\ stale # {}
  /\ stale \subseteq Viewers
  /\ prev_task = "interrupted"
  /\ bot_task = "sleeping"
  /\ slow_sends = 0
  /\ raises = 0
  /\ "dead" \notin SeqSetOf(roster)

\* C16: while a task holds room.lock no other task changes the room's
\* players, host, game or tick: nothing but the passing of time (a sleep
\* ending, the clock reaching next_action_at) and the sends of broadcasts,
\* which run outside the lock, happens until the holder releases it, and the
\* lock has one holder at most.
C16_RoomGate ==
  /\ [](lock \in {"free", "join"})
  /\ [][(lock # "free") =>
         /\ UNCHANGED <<gameVars, roster, host_id, prev_task>>
         /\ \/ bot_task' = bot_task
            \/ bot_task = "sleeping" /\ bot_task' = "due"
            \/ bot_task = "sending" /\ bot_task' = "done"
         /\ next_action_at' = next_action_at \/ next_action_at' = "past"
         /\ lock' \in {lock, "free"}]_vars

\* a tick is due to play for an automated seat while a rejected connection
\* holds the lock
C16_Witness ==
  /\ lock = "join"
  /\ bot_task = "due"
  /\ phase = "playing"
  /\ SeatStatus(current_turn) \in {"bot", "left"}

\* the seat at place i was left by its human and is to play
LeftOnTurn(i) ==
  /\ i \in Places
  /\ roster[i] = "left"
  /\ phase = "playing"
  /\ current_turn = Seats[i]

\* the seat at place i was left by its human and owes a pass
LeftOwesPass(i) ==
  /\ i \in Places
  /\ roster[i] = "left"
  /\ phase = "passing"
  /\ Seats[i] \notin PendingSeats(pending_pass)

\* C17: a seat left by its human stays automated, and when it owes a pass
\* or is to play, the pass or the play eventually happens without any
\* further message, armed timers firing.
C17_ProgressAfterDisconnect ==
  /\ [][\A i \in Places : roster[i] = "left" => (i \in 1..Len(roster') /\ roster'[i] = "left")]_vars
  /\ \A i \in 1..max_players : LeftOnTurn(i) ~> ~LeftOnTurn(i)
  /\ \A i \in 1..max_players : LeftOwesPass(i) ~> ~LeftOwesPass(i)

\* a seat left by its human is to play and no tick is armed
C17_Stalled ==
  /\ \E i \in Places : LeftOnTurn(i)
  /\ ~Armed(bot_task)
  /\ lock = "free"

\* C18: a start_game message from the host while the game is in passing,
\* playing or round_end leaves the game as it is: the game after the
\* message is what advance_bots, which ends every message, makes of the
\* game before it.
C18_StartGameOnlyWhenIdle ==
  [][\A i \in Readers :
       (/\ phase \in {"passing", "playing", "round_end"}
        /\ Seats[i] = host_id
        /\ StartGameMsg(i)) =>
         GameRec' = advance_bots(GameRec, roster, next_action_at).game]_vars

\* a first round in its passing phase in a room where a tick has been
\* armed: an earlier game of the room had reached its playing phase
C18_Restarted ==
  /\ phase = "passing"
  /\ round_index = 0
  /\ bot_task # "none"

\* C20: whenever the game is in round_end and a human is connected, some
\* connected human's start_round is accepted.
C20_NoDeadEndAtRoundEnd ==
  (phase = "round_end" /\ Humans # {}) => \E i \in Humans : StartRoundAccepted(i)

\* the round ended after the host left; humans are connected
C20_HostGone ==
  /\ phase = "round_end"
  /\ Humans # {}
  /\ host_id \notin Viewers
  /\ SeatStatus(host_id) = "left"

=============================================================================
